---- MODULE Spec2Model ----
(***************************************************************************)
(* Model of the OpenAPI client generator (cmd/clientgen) and of the        *)
(* generated HTTP client (client.go) of go-jplaw-api-v2.                   *)
(*                                                                         *)
(* Go strings are modelled as sequences of one-character strings, so that  *)
(* splitting, case conversion and concatenation are computed the way the   *)
(* code computes them.  Only ASCII input is modelled.  Strings that the    *)
(* code only compares with literals (Schema.Type, Schema.Format) and the   *)
(* pieces of a request URL are kept as atoms.                              *)
(***************************************************************************)
EXTENDS Integers, Sequences, FiniteSets, TLC

VARIABLES
    pc,           \* position of the run that is being modelled
    str,          \* argument of toPascalCase
    op,           \* an Operation (OperationID, Summary)
    pascal,       \* toPascalCase(str)
    pascalTwice,  \* toPascalCase(toPascalCase(str))
    methodName,   \* op.GetMethodName()
    schema,       \* receiver of Schema.GoType
    goType,       \* schema.GoType()
    n1, n2,       \* two component names referenced through $ref
    goType1,      \* GoType of the schema whose Ref points to n1
    goType2,      \* GoType of the schema whose Ref points to n2
    call,         \* a call of a client method: method, path arguments, params
    urlPath,      \* urlPath of the method when it reaches http.NewRequest
    queryParams,  \* queryParams of the method at that point
    requests,     \* the requests handed to httpClient.Do so far
    resp,         \* the response httpClient.Do returned, if any
    result,       \* the pointer the method returns
    err,          \* the error the method returns
    argv,         \* what flag.Parse finds on the command line of clientgen
    fs0,          \* the files and directories when clientgen starts
    fs,           \* the files and directories now
    failedAt,     \* the step of main that failed, "" when none has
    exit,         \* the exit status of the clientgen process once it ended
    stdout,       \* what main printed with fmt
    stderr,       \* what flag and log printed
    responses,    \* Responses of an Operation: status-code key to Response
    success1,     \* what a call of GetSuccessResponse returned
    success2,     \* what a second call on the same Operation returned
    schemas,      \* the keys of Components.Schemas
    paths,        \* the keys of Paths
    sortedSchemas, \* what GetSortedSchemas returned
    sortedPaths   \* what GetSortedPaths returned

namingVars == <<str, op, pascal, pascalTwice, methodName>>
typeVars == <<schema, goType>>
refVars == <<n1, n2, goType1, goType2>>
clientVars == <<call, urlPath, queryParams, requests, resp, result, err>>
mainVars == <<argv, fs0, fs, failedAt, exit, stdout, stderr>>
responseVars == <<responses, success1, success2>>
sortedVars == <<schemas, paths, sortedSchemas, sortedPaths>>
generatorVars == <<mainVars, responseVars, sortedVars>>
vars == <<pc, namingVars, typeVars, refVars, clientVars, generatorVars>>

(***************************************************************************)
(* Bounds                                                                  *)
(***************************************************************************)
MaxNameLen == 3
MaxRefNameLen == 3

(***************************************************************************)
(* Strings                                                                 *)
(***************************************************************************)
Lowers == <<"a","b","c","d","e","f","g","h","i","j","k","l","m",
            "n","o","p","q","r","s","t","u","v","w","x","y","z">>
Uppers == <<"A","B","C","D","E","F","G","H","I","J","K","L","M",
            "N","O","P","Q","R","S","T","U","V","W","X","Y","Z">>

\* unicode.ToUpper on one ASCII character
ToUpperChar(c) ==
    IF \E i \in 1..Len(Lowers) : Lowers[i] = c
    THEN Uppers[CHOOSE i \in 1..Len(Lowers) : Lowers[i] = c]
    ELSE c

\* unicode.ToLower on one ASCII character
ToLowerChar(c) ==
    IF \E i \in 1..Len(Uppers) : Uppers[i] = c
    THEN Lowers[CHOOSE i \in 1..Len(Uppers) : Uppers[i] = c]
    ELSE c

\* strings.ToUpper
ToUpper(s) == [i \in 1..Len(s) |-> ToUpperChar(s[i])]

\* strings.ToLower
ToLower(s) == [i \in 1..Len(s) |-> ToLowerChar(s[i])]

\* strings.Split(s, sep) for a one-character separator
RECURSIVE Split(_, _)
Split(s, sep) ==
    IF \A i \in 1..Len(s) : s[i] # sep
    THEN <<s>>
    ELSE LET i == CHOOSE k \in 1..Len(s) :
                     /\ s[k] = sep
                     /\ \A j \in 1..(k-1) : s[j] # sep
         IN <<SubSeq(s, 1, i-1)>> \o Split(SubSeq(s, i+1, Len(s)), sep)

\* strings.ReplaceAll(s, old, new) for one-character old and new
ReplaceAll(s, old, new) == [i \in 1..Len(s) |-> IF s[i] = old THEN new ELSE s[i]]

\* strings.Join(words, "")
RECURSIVE Join(_)
Join(words) ==
    IF words = <<>> THEN <<>> ELSE Head(words) \o Join(Tail(words))

\* the splitting predicate toPascalCase hands to strings.FieldsFunc
IsWordSeparator(c) == c = "_" \/ c = "-" \/ c = " "

\* strings.FieldsFunc(s, IsWordSeparator): the maximal runs of characters
\* that are not separators; never an empty field
RECURSIVE FieldsFunc(_)
FieldsFunc(s) ==
    IF s = <<>> THEN <<>>
    ELSE IF IsWordSeparator(s[1]) THEN FieldsFunc(Tail(s))
    ELSE LET n == CHOOSE k \in 1..Len(s) :
                      /\ \A j \in 1..k : ~IsWordSeparator(s[j])
                      /\ (k = Len(s) \/ IsWordSeparator(s[k+1]))
         IN <<SubSeq(s, 1, n)>> \o FieldsFunc(SubSeq(s, n+1, Len(s)))

\* variant of CapitalizeWord that leaves word[1:] as it is
CapitalizeWordKeepRest(word) ==
    IF word = <<>> THEN word
    ELSE <<ToUpperChar(word[1])>> \o Tail(word)

\* strings.ToUpper(string(word[0])) + strings.ToLower(word[1:])
CapitalizeWord(word) ==
    IF word = <<>> THEN word
    ELSE <<ToUpperChar(word[1])>> \o ToLower(Tail(word))

toPascalCase(s) ==
    IF s = <<>> THEN <<>>
    ELSE LET words == FieldsFunc(s)
         IN Join([i \in 1..Len(words) |-> CapitalizeWord(words[i])])

UnknownOperation ==
    <<"U","n","k","n","o","w","n","O","p","e","r","a","t","i","o","n">>

\* variant of GetMethodName without the fallback name
GetMethodNameNoFallback(o) ==
    toPascalCase(ReplaceAll(o.OperationID, "-", "_"))

GetMethodName(o) ==
    IF o.OperationID # <<>>
    THEN toPascalCase(ReplaceAll(o.OperationID, "-", "_"))
    ELSE UnknownOperation

(***************************************************************************)
(* Type resolver: Schema.GoType                                            *)
(***************************************************************************)
\* the zero value of Schema
EmptySchema ==
    [Type |-> "", Format |-> "", Properties |-> {}, Items |-> <<>>,
     Enum |-> <<>>, Ref |-> <<>>, AllOf |-> <<>>]

\* the Go type names GoType returns as literals
TString == <<"s","t","r","i","n","g">>
TDateTime == <<"D","a","t","e","T","i","m","e">>
TDate == <<"D","a","t","e">>
TInt32 == <<"i","n","t","3","2">>
TInt64 == <<"i","n","t","6","4">>
TInt == <<"i","n","t">>
TFloat32 == <<"f","l","o","a","t","3","2">>
TFloat64 == <<"f","l","o","a","t","6","4">>
TBool == <<"b","o","o","l">>
TSlice == <<"[","]">>
TSliceOfInterface == <<"[","]","i","n","t","e","r","f","a","c","e","{","}">>
TMapOfInterface == <<"m","a","p","[","s","t","r","i","n","g","]","i","n","t","e","r","f","a","c","e","{","}">>
TInterface == <<"i","n","t","e","r","f","a","c","e","{","}">>

\* variant of RefTypeName that takes the first segment of the reference
RefTypeNameFirstSegment(ref) ==
    LET parts == Split(ref, "/") IN toPascalCase(parts[1])

\* parts := strings.Split(ref, "/"); toPascalCase(parts[len(parts)-1])
RefTypeName(ref) ==
    LET parts == Split(ref, "/") IN toPascalCase(parts[Len(parts)])

\* variant of StringGoType that looks at Format before Enum
StringGoTypeFormatFirst(s) ==
    CASE s.Format = "date-time" -> TDateTime
      [] s.Format = "date" -> TDate
      [] OTHER -> TString

\* case "string" of the switch on s.Type
StringGoType(s) ==
    IF Len(s.Enum) > 0 THEN TString
    ELSE CASE s.Format = "date-time" -> TDateTime
           [] s.Format = "date" -> TDate
           [] OTHER -> TString

\* case "integer"
IntegerGoType(s) ==
    CASE s.Format = "int32" -> TInt32
      [] s.Format = "int64" -> TInt64
      [] OTHER -> TInt

\* case "number"
NumberGoType(s) ==
    CASE s.Format = "float" -> TFloat32
      [] s.Format = "double" -> TFloat64
      [] OTHER -> TFloat64

\* variant of ArrayGoType that never looks at Items
ArrayGoTypeUntyped(s, itemsGoType) == TSliceOfInterface

\* case "array"; itemsGoType is s.Items.GoType(), used when Items is not nil
ArrayGoType(s, itemsGoType) ==
    IF s.Items # <<>> THEN TSlice \o itemsGoType
    ELSE TSliceOfInterface

\* case "object"
ObjectGoType(s) ==
    IF Cardinality(s.Properties) = 0 THEN TMapOfInterface
    ELSE TInterface

\* the switch on s.Type
TypeSwitch(s, itemsGoType) ==
    CASE s.Type = "string" -> StringGoType(s)
      [] s.Type = "integer" -> IntegerGoType(s)
      [] s.Type = "number" -> NumberGoType(s)
      [] s.Type = "boolean" -> TBool
      [] s.Type = "array" -> ArrayGoType(s, itemsGoType)
      [] s.Type = "object" -> ObjectGoType(s)
      [] OTHER -> TInterface

\* variant of AllOfTypeName that resolves the first member when no member
\* carries a $ref
AllOfTypeNameFirstMember(allOf) ==
    IF Len(allOf) > 0 /\ \E i \in 1..Len(allOf) : allOf[i].Ref # <<>>
    THEN LET first == CHOOSE i \in 1..Len(allOf) :
                          /\ allOf[i].Ref # <<>>
                          /\ \A j \in 1..(i-1) : allOf[j].Ref = <<>>
         IN <<RefTypeName(allOf[first].Ref)>>
    ELSE IF Len(allOf) > 0 THEN <<TypeSwitch(allOf[1], <<>>)>>
    ELSE <<>>

\* variant of AllOfTypeName that keeps the last member carrying a $ref
AllOfTypeNameLastRef(allOf) ==
    IF \E i \in 1..Len(allOf) : allOf[i].Ref # <<>>
    THEN LET last == CHOOSE i \in 1..Len(allOf) :
                         /\ allOf[i].Ref # <<>>
                         /\ \A j \in (i+1)..Len(allOf) : allOf[j].Ref = <<>>
         IN <<RefTypeName(allOf[last].Ref)>>
    ELSE <<>>

\* the allOf loop of GoType: the name of the first member that carries a
\* $ref as a one-element sequence, the empty sequence when the loop falls
\* through
AllOfTypeName(allOf) ==
    IF Len(allOf) > 0 /\ \E i \in 1..Len(allOf) : allOf[i].Ref # <<>>
    THEN LET first == CHOOSE i \in 1..Len(allOf) :
                          /\ allOf[i].Ref # <<>>
                          /\ \A j \in 1..(i-1) : allOf[j].Ref = <<>>
         IN <<RefTypeName(allOf[first].Ref)>>
    ELSE <<>>

\* variant of GoType that looks at AllOf before Ref
RECURSIVE GoTypeAllOfFirst(_)
GoTypeAllOfFirst(s) ==
    IF AllOfTypeName(s.AllOf) # <<>> THEN AllOfTypeName(s.AllOf)[1]
    ELSE IF s.Ref # <<>> THEN RefTypeName(s.Ref)
    ELSE TypeSwitch(s, IF s.Items # <<>> THEN GoTypeAllOfFirst(s.Items[1])
                       ELSE <<>>)

\* Items is a pointer: <<>> is nil, <<schema>> points to schema
RECURSIVE GoType(_)
GoType(s) ==
    IF s.Ref # <<>> THEN RefTypeName(s.Ref)
    ELSE IF AllOfTypeName(s.AllOf) # <<>> THEN AllOfTypeName(s.AllOf)[1]
    ELSE TypeSwitch(s, IF s.Items # <<>> THEN GoType(s.Items[1]) ELSE <<>>)

(***************************************************************************)
(* Generated client: the six methods of Client                             *)
(*                                                                         *)
(* A method is described by its path (literal pieces and the names of     *)
(* path arguments), the way it decodes a success body, and its query       *)
(* fields in the order the method tests them.  kind is "required" for a    *)
(* value field, "scalar" for a pointer field written with Set and          *)
(* "sequence" for a pointer to a slice written with Add.                   *)
(*                                                                         *)
(* A pointer is a sequence of length at most one: <<>> is nil and <<v>>     *)
(* points to v.  A URL is the sequence of the pieces that were             *)
(* concatenated.                                                           *)
(* Values are atoms: a string stands for itself, "int32(10)" and the like  *)
(* stand for values of the other Go types.                                 *)
(***************************************************************************)
GetAttachmentMethod ==
    [name |-> "GetAttachment",
     path |-> <<[lit |-> "/attachment"], [lit |-> "/"], [arg |-> "lawRevisionId"]>>,
     decode |-> "raw",
     fields |-> <<
        [name |-> "Src", key |-> "src", kind |-> "scalar", type |-> "string"] >>]

GetKeywordMethod ==
    [name |-> "GetKeyword",
     path |-> <<[lit |-> "/keyword"]>>,
     decode |-> "json",
     fields |-> <<
        [name |-> "Keyword", key |-> "keyword", kind |-> "required", type |-> "string"],
        [name |-> "LawNum", key |-> "law_num", kind |-> "scalar", type |-> "string"],
        [name |-> "LawNumEra", key |-> "law_num_era", kind |-> "scalar", type |-> "LawNumEra"],
        [name |-> "LawNumNum", key |-> "law_num_num", kind |-> "scalar", type |-> "string"],
        [name |-> "LawNumType", key |-> "law_num_type", kind |-> "scalar", type |-> "LawNumType"],
        [name |-> "LawNumYear", key |-> "law_num_year", kind |-> "scalar", type |-> "int"],
        [name |-> "LawType", key |-> "law_type", kind |-> "sequence", type |-> "LawType"],
        [name |-> "Asof", key |-> "asof", kind |-> "scalar", type |-> "Date"],
        [name |-> "CategoryCd", key |-> "category_cd", kind |-> "sequence", type |-> "CategoryCd"],
        [name |-> "PromulgationDateFrom", key |-> "promulgation_date_from", kind |-> "scalar", type |-> "Date"],
        [name |-> "PromulgationDateTo", key |-> "promulgation_date_to", kind |-> "scalar", type |-> "Date"],
        [name |-> "Limit", key |-> "limit", kind |-> "scalar", type |-> "int32"],
        [name |-> "Offset", key |-> "offset", kind |-> "scalar", type |-> "int32"],
        [name |-> "Order", key |-> "order", kind |-> "scalar", type |-> "string"],
        [name |-> "ResponseFormat", key |-> "response_format", kind |-> "scalar", type |-> "ResponseFormat"],
        [name |-> "SentencesLimit", key |-> "sentences_limit", kind |-> "scalar", type |-> "int32"],
        [name |-> "SentenceTextSize", key |-> "sentence_text_size", kind |-> "scalar", type |-> "int32"],
        [name |-> "HighlightTag", key |-> "highlight_tag", kind |-> "scalar", type |-> "string"] >>]

GetLawDataMethod ==
    [name |-> "GetLawData",
     path |-> <<[lit |-> "/law_data"], [lit |-> "/"], [arg |-> "lawIdOrNumOrRevisionId"]>>,
     decode |-> "json",
     fields |-> <<
        [name |-> "LawFullTextFormat", key |-> "law_full_text_format", kind |-> "scalar", type |-> "ResponseFormat"],
        [name |-> "Asof", key |-> "asof", kind |-> "scalar", type |-> "Date"],
        [name |-> "Elm", key |-> "elm", kind |-> "scalar", type |-> "Elm"],
        [name |-> "OmitAmendmentSupplProvision", key |-> "omit_amendment_suppl_provision", kind |-> "scalar", type |-> "bool"],
        [name |-> "IncludeAttachedFileContent", key |-> "include_attached_file_content", kind |-> "scalar", type |-> "bool"],
        [name |-> "ResponseFormat", key |-> "response_format", kind |-> "scalar", type |-> "ResponseFormat"] >>]

GetLawFileMethod ==
    [name |-> "GetLawFile",
     path |-> <<[lit |-> "/law_file"], [lit |-> "/"], [arg |-> "fileType"], [lit |-> "/"], [arg |-> "lawIdOrNumOrRevisionId"]>>,
     decode |-> "raw",
     fields |-> <<
        [name |-> "Asof", key |-> "asof", kind |-> "scalar", type |-> "Date"] >>]

GetRevisionsMethod ==
    [name |-> "GetRevisions",
     path |-> <<[lit |-> "/law_revisions"], [lit |-> "/"], [arg |-> "lawIdOrNum"]>>,
     decode |-> "json",
     fields |-> <<
        [name |-> "LawTitle", key |-> "law_title", kind |-> "scalar", type |-> "string"],
        [name |-> "LawTitleKana", key |-> "law_title_kana", kind |-> "scalar", type |-> "string"],
        [name |-> "AmendmentDateFrom", key |-> "amendment_date_from", kind |-> "scalar", type |-> "Date"],
        [name |-> "AmendmentDateTo", key |-> "amendment_date_to", kind |-> "scalar", type |-> "Date"],
        [name |-> "AmendmentLawId", key |-> "amendment_law_id", kind |-> "scalar", type |-> "string"],
        [name |-> "AmendmentLawNum", key |-> "amendment_law_num", kind |-> "scalar", type |-> "string"],
        [name |-> "AmendmentLawTitle", key |-> "amendment_law_title", kind |-> "scalar", type |-> "string"],
        [name |-> "AmendmentLawTitleKana", key |-> "amendment_law_title_kana", kind |-> "scalar", type |-> "string"],
        [name |-> "AmendmentPromulgateDateFrom", key |-> "amendment_promulgate_date_from", kind |-> "scalar", type |-> "Date"],
        [name |-> "AmendmentPromulgateDateTo", key |-> "amendment_promulgate_date_to", kind |-> "scalar", type |-> "Date"],
        [name |-> "AmendmentType", key |-> "amendment_type", kind |-> "sequence", type |-> "AmendmentType"],
        [name |-> "CategoryCd", key |-> "category_cd", kind |-> "sequence", type |-> "CategoryCd"],
        [name |-> "CurrentRevisionStatus", key |-> "current_revision_status", kind |-> "sequence", type |-> "CurrentRevisionStatus"],
        [name |-> "Mission", key |-> "mission", kind |-> "sequence", type |-> "Mission"],
        [name |-> "RemainInForce", key |-> "remain_in_force", kind |-> "scalar", type |-> "bool"],
        [name |-> "RepealDateFrom", key |-> "repeal_date_from", kind |-> "scalar", type |-> "Date"],
        [name |-> "RepealDateTo", key |-> "repeal_date_to", kind |-> "scalar", type |-> "Date"],
        [name |-> "RepealStatus", key |-> "repeal_status", kind |-> "sequence", type |-> "RepealStatus"],
        [name |-> "UpdatedFrom", key |-> "updated_from", kind |-> "scalar", type |-> "Date"],
        [name |-> "UpdatedTo", key |-> "updated_to", kind |-> "scalar", type |-> "Date"],
        [name |-> "ResponseFormat", key |-> "response_format", kind |-> "scalar", type |-> "ResponseFormat"] >>]

GetLawsMethod ==
    [name |-> "GetLaws",
     path |-> <<[lit |-> "/laws"]>>,
     decode |-> "json",
     fields |-> <<
        [name |-> "LawId", key |-> "law_id", kind |-> "scalar", type |-> "string"],
        [name |-> "LawNum", key |-> "law_num", kind |-> "scalar", type |-> "string"],
        [name |-> "LawNumEra", key |-> "law_num_era", kind |-> "scalar", type |-> "LawNumEra"],
        [name |-> "LawNumNum", key |-> "law_num_num", kind |-> "scalar", type |-> "string"],
        [name |-> "LawNumType", key |-> "law_num_type", kind |-> "scalar", type |-> "LawNumType"],
        [name |-> "LawNumYear", key |-> "law_num_year", kind |-> "scalar", type |-> "int"],
        [name |-> "LawTitle", key |-> "law_title", kind |-> "scalar", type |-> "string"],
        [name |-> "LawTitleKana", key |-> "law_title_kana", kind |-> "scalar", type |-> "string"],
        [name |-> "LawType", key |-> "law_type", kind |-> "sequence", type |-> "LawType"],
        [name |-> "AmendmentLawId", key |-> "amendment_law_id", kind |-> "scalar", type |-> "string"],
        [name |-> "Asof", key |-> "asof", kind |-> "scalar", type |-> "Date"],
        [name |-> "CategoryCd", key |-> "category_cd", kind |-> "sequence", type |-> "CategoryCd"],
        [name |-> "Mission", key |-> "mission", kind |-> "sequence", type |-> "Mission"],
        [name |-> "OmitCurrentRevisionInfo", key |-> "omit_current_revision_info", kind |-> "scalar", type |-> "bool"],
        [name |-> "PromulgationDateFrom", key |-> "promulgation_date_from", kind |-> "scalar", type |-> "Date"],
        [name |-> "PromulgationDateTo", key |-> "promulgation_date_to", kind |-> "scalar", type |-> "Date"],
        [name |-> "RepealStatus", key |-> "repeal_status", kind |-> "sequence", type |-> "RepealStatus"],
        [name |-> "Limit", key |-> "limit", kind |-> "scalar", type |-> "int32"],
        [name |-> "Offset", key |-> "offset", kind |-> "scalar", type |-> "int32"],
        [name |-> "Order", key |-> "order", kind |-> "scalar", type |-> "string"],
        [name |-> "ResponseFormat", key |-> "response_format", kind |-> "scalar", type |-> "ResponseFormat"] >>]

Methods ==
    <<GetAttachmentMethod, GetKeywordMethod, GetLawDataMethod,
      GetLawFileMethod, GetRevisionsMethod, GetLawsMethod>>

MethodNamed(name) ==
    Methods[CHOOSE i \in 1..Len(Methods) : Methods[i].name = name]

\* c.baseURL as NewClient sets it
DefaultBaseURL == "<DefaultBaseURL>"

\* fmt.Sprintf("%v", v)
Sprintf(v) ==
    CASE v = "int(28)" -> "28"
      [] v = "int32(10)" -> "10"
      [] v = "bool(true)" -> "true"
      [] OTHER -> v

\* url.QueryEscape
QueryEscape(s) ==
    CASE s = "a b" -> "a+b"
      [] s = "a,b" -> "a%2Cb"
      [] OTHER -> s

\* url.Values is a map from key to the list of its values
EmptyValues == [k \in {} |-> <<>>]

\* url.Values.Set
Set(q, key, value) ==
    [k \in DOMAIN q \cup {key} |-> IF k = key THEN <<value>> ELSE q[k]]

\* url.Values.Add
Add(q, key, value) ==
    [k \in DOMAIN q \cup {key} |->
        IF k # key THEN q[k]
        ELSE IF key \in DOMAIN q THEN Append(q[key], value) ELSE <<value>>]

\* every wire key of the client in the order sort.Strings gives them
KeyOrder ==
    <<"amendment_date_from", "amendment_date_to", "amendment_law_id",
      "amendment_law_num", "amendment_law_title",
      "amendment_law_title_kana", "amendment_promulgate_date_from",
      "amendment_promulgate_date_to", "amendment_type", "asof",
      "category_cd", "current_revision_status", "elm", "highlight_tag",
      "include_attached_file_content", "keyword",
      "law_full_text_format", "law_id", "law_num", "law_num_era",
      "law_num_num", "law_num_type", "law_num_year", "law_title",
      "law_title_kana", "law_type", "limit", "mission", "offset",
      "omit_amendment_suppl_provision", "omit_current_revision_info",
      "order", "promulgation_date_from", "promulgation_date_to",
      "remain_in_force", "repeal_date_from", "repeal_date_to",
      "repeal_status", "response_format", "sentence_text_size",
      "sentences_limit", "src", "updated_from", "updated_to">>

\* the keys of q, sorted
RECURSIVE SortedKeysFrom(_, _)
SortedKeysFrom(q, i) ==
    IF i > Len(KeyOrder) THEN <<>>
    ELSE (IF KeyOrder[i] \in DOMAIN q THEN <<KeyOrder[i]>> ELSE <<>>)
         \o SortedKeysFrom(q, i + 1)

\* the inner loop of url.Values.Encode: key=value for every value of key,
\* with "&" before every pair but the first of the buffer
RECURSIVE EncodeKey(_, _, _)
EncodeKey(buf, key, values) ==
    IF values = <<>> THEN buf
    ELSE EncodeKey((IF Len(buf) > 0 THEN buf \o <<"&">> ELSE buf)
                       \o <<QueryEscape(key), "=", QueryEscape(Head(values))>>,
                   key, Tail(values))

RECURSIVE EncodeKeys(_, _, _)
EncodeKeys(buf, q, keys) ==
    IF keys = <<>> THEN buf
    ELSE EncodeKeys(EncodeKey(buf, Head(keys), q[Head(keys)]), q, Tail(keys))

\* url.Values.Encode
Encode(q) == EncodeKeys(<<>>, q, SortedKeysFrom(q, 1))

\* variant of AddAll that writes every element with Set
RECURSIVE AddAllWithSet(_, _, _)
AddAllWithSet(q, key, list) ==
    IF list = <<>> THEN q
    ELSE AddAllWithSet(Set(q, key, Sprintf(Head(list))), key, Tail(list))

\* for _, v := range *params.F { queryParams.Add(key, fmt.Sprintf("%v", v)) }
RECURSIVE AddAll(_, _, _)
AddAll(q, key, list) ==
    IF list = <<>> THEN q
    ELSE AddAll(Add(q, key, Sprintf(Head(list))), key, Tail(list))

\* the statement a method has for one field of params
ApplyField(q, field, p) ==
    CASE field.kind = "required" -> Set(q, field.key, Sprintf(p[field.name]))
      [] field.kind = "scalar" ->
            IF p[field.name] # <<>>
            THEN Set(q, field.key, Sprintf(p[field.name][1]))
            ELSE q
      [] field.kind = "sequence" ->
            IF p[field.name] # <<>>
            THEN AddAll(q, field.key, p[field.name][1])
            ELSE q

\* the statements of a method for all its fields, in source order
RECURSIVE ApplyFields(_, _, _)
ApplyFields(q, fields, p) ==
    IF fields = <<>> THEN q
    ELSE ApplyFields(ApplyField(q, Head(fields), p), Tail(fields), p)

\* queryParams at the end of the "if params != nil" block
QueryParams(m, params) ==
    IF params # <<>> THEN ApplyFields(EmptyValues, m.fields, params[1])
    ELSE EmptyValues

\* urlPath := c.baseURL + "/..." + "/" + arg
BasePath(baseURL, m, args) ==
    <<baseURL>> \o [i \in 1..Len(m.path) |->
                      IF "arg" \in DOMAIN m.path[i] THEN args[m.path[i].arg]
                      ELSE m.path[i].lit]

\* variant of QuerySuffix that does not test len(queryParams)
QuerySuffixAlways(params, q) ==
    IF params # <<>> THEN <<"?">> \o Encode(q) ELSE <<>>

\* if len(queryParams) > 0 { urlPath += "?" + queryParams.Encode() }
QuerySuffix(params, q) ==
    IF params # <<>> /\ Cardinality(DOMAIN q) > 0
    THEN <<"?">> \o Encode(q)
    ELSE <<>>

\* urlPath as handed to http.NewRequest
BuildURL(baseURL, m, args, params) ==
    BasePath(baseURL, m, args) \o QuerySuffix(params, QueryParams(m, params))

(***************************************************************************)
(* Inputs                                                                  *)
(***************************************************************************)
BoundedStrings(alphabet, n) == UNION {[1..k -> alphabet] : k \in 0..n}

NameAlphabet == {"a", "B", "_", "-", " "}

law_id == <<"l","a","w","_","i","d">>
lawId == <<"l","a","w","I","d">>
get_law_data == <<"g","e","t","-","l","a","w","-","d","a","t","a">>
GetLawData == <<"G","e","t","L","a","w","D","a","t","a">>

NameInputs ==
    BoundedStrings(NameAlphabet, MaxNameLen) \cup {law_id, lawId, get_law_data}

Summaries == {"summary 1", "summary 2"}

(***************************************************************************)
(* Idle values of the variables a specification does not use               *)
(***************************************************************************)
NamingIdle ==
    /\ str = <<>>
    /\ op = [OperationID |-> <<>>, Summary |-> ""]
    /\ pascal = <<>>
    /\ pascalTwice = <<>>
    /\ methodName = <<>>

TypeIdle ==
    /\ schema = EmptySchema
    /\ goType = <<>>

RefIdle ==
    /\ n1 = <<>>
    /\ n2 = <<>>
    /\ goType1 = <<>>
    /\ goType2 = <<>>

ClientIdle ==
    /\ call = [method |-> "", args |-> <<>>, params |-> <<>>]
    /\ urlPath = <<>>
    /\ queryParams = <<>>
    /\ requests = <<>>
    /\ resp = <<>>
    /\ result = <<>>
    /\ err = <<>>

MainIdle ==
    /\ argv = ""
    /\ fs0 = <<>>
    /\ fs = <<>>
    /\ failedAt = ""
    /\ exit = <<>>
    /\ stdout = <<>>
    /\ stderr = <<>>

ResponseIdle ==
    /\ responses = <<>>
    /\ success1 = <<>>
    /\ success2 = <<>>

SortedIdle ==
    /\ schemas = {}
    /\ paths = {}
    /\ sortedSchemas = <<>>
    /\ sortedPaths = <<>>

GeneratorIdle ==
    /\ MainIdle
    /\ ResponseIdle
    /\ SortedIdle

(***************************************************************************)
(* Naming engine: toPascalCase and Operation.GetMethodName                 *)
(***************************************************************************)
NamingInit ==
    /\ pc = "start"
    /\ str \in NameInputs
    /\ \E summary \in Summaries : op = [OperationID |-> str, Summary |-> summary]
    /\ pascal = <<>>
    /\ pascalTwice = <<>>
    /\ methodName = <<>>
    /\ TypeIdle
    /\ RefIdle
    /\ ClientIdle
    /\ GeneratorIdle

CallToPascalCase ==
    /\ pc = "start"
    /\ pascal' = toPascalCase(str)
    /\ pc' = "pascal"
    /\ UNCHANGED <<str, op, pascalTwice, methodName, typeVars, refVars, clientVars, generatorVars>>

CallToPascalCaseAgain ==
    /\ pc = "pascal"
    /\ pascalTwice' = toPascalCase(pascal)
    /\ pc' = "pascalTwice"
    /\ UNCHANGED <<str, op, pascal, methodName, typeVars, refVars, clientVars, generatorVars>>

CallGetMethodName ==
    /\ pc = "start"
    /\ methodName' = GetMethodName(op)
    /\ pc' = "methodName"
    /\ UNCHANGED <<str, op, pascal, pascalTwice, typeVars, refVars, clientVars, generatorVars>>

NamingNext ==
    \/ CallToPascalCase
    \/ CallToPascalCaseAgain
    \/ CallGetMethodName

NamingSpec == NamingInit /\ [][NamingNext]_vars

(***************************************************************************)
(* Schemas handed to GoType                                                *)
(***************************************************************************)
MaxAllOf == 2
MaxDepth == 2

ComponentsPrefix ==
    <<"#","/","c","o","m","p","o","n","e","n","t","s","/",
      "s","c","h","e","m","a","s","/">>

RefTo(name) == ComponentsPrefix \o name

Foo == <<"F","o","o">>
bar_baz == <<"b","a","r","_","b","a","z">>
BarBaz == <<"B","a","r","B","a","z">>
LawId == <<"L","a","w","I","d">>

Types == {"", "string", "integer", "number", "boolean", "array", "object", "null"}
Formats == {"", "date-time", "date", "int32", "int64", "float", "double"}
Enums == {<<>>, <<"e1">>}
PropertySets == {{}, {"p1"}}
Refs == {<<>>, RefTo(law_id)}

ObjectMember == [EmptySchema EXCEPT !.Type = "object"]
FooMember == [EmptySchema EXCEPT !.Ref = RefTo(Foo)]
BarBazMember == [EmptySchema EXCEPT !.Ref = RefTo(bar_baz), !.Type = "string"]

AllOfMembers == {ObjectMember, FooMember, BarBazMember}

AllOfLists == UNION {[1..k -> AllOfMembers] : k \in 0..MaxAllOf}

Int32Schema == [EmptySchema EXCEPT !.Type = "integer", !.Format = "int32"]
DateTimeSchema == [EmptySchema EXCEPT !.Type = "string", !.Format = "date-time"]

ItemLeaves == {Int32Schema, DateTimeSchema, FooMember}

\* the schemas an array can hold: at most d further levels of array below
RECURSIVE ItemSchemas(_)
ItemSchemas(d) ==
    IF d = 0 THEN ItemLeaves
    ELSE ItemLeaves
         \cup {[EmptySchema EXCEPT !.Type = "array"]}
         \cup {[EmptySchema EXCEPT !.Type = "array", !.Items = <<it>>] :
                  it \in ItemSchemas(d - 1)}

ItemPointers == {<<>>} \cup {<<it>> : it \in ItemSchemas(MaxDepth - 1)}

SchemaInputs ==
    [Type : Types, Format : Formats, Properties : PropertySets,
     Items : ItemPointers, Enum : Enums, Ref : Refs, AllOf : AllOfLists]

TypeInit ==
    /\ pc = "start"
    /\ schema \in SchemaInputs
    /\ goType = <<>>
    /\ NamingIdle
    /\ RefIdle
    /\ ClientIdle
    /\ GeneratorIdle

CallGoType ==
    /\ pc = "start"
    /\ goType' = GoType(schema)
    /\ pc' = "goType"
    /\ UNCHANGED <<schema, namingVars, refVars, clientVars, generatorVars>>

TypeNext == CallGoType

TypeSpec == TypeInit /\ [][TypeNext]_vars

(***************************************************************************)
(* Two schemas that reference the components named n1 and n2               *)
(***************************************************************************)
RefNameAlphabet == {"a", "B", "_", "/"}

\* the keys of Components.Schemas: the parser takes any non-empty string
ComponentNames == BoundedStrings(RefNameAlphabet, MaxRefNameLen) \ {<<>>}

RefSchema(name) == [EmptySchema EXCEPT !.Ref = RefTo(name)]

RefInit ==
    /\ pc = "start"
    /\ n1 \in ComponentNames
    /\ n2 \in ComponentNames
    /\ n1 # n2
    /\ goType1 = <<>>
    /\ goType2 = <<>>
    /\ NamingIdle
    /\ TypeIdle
    /\ ClientIdle
    /\ GeneratorIdle

CallGoTypeN1 ==
    /\ pc = "start"
    /\ goType1' = GoType(RefSchema(n1))
    /\ pc' = "goType1"
    /\ UNCHANGED <<n1, n2, goType2, namingVars, typeVars, clientVars, generatorVars>>

CallGoTypeN2 ==
    /\ pc = "goType1"
    /\ goType2' = GoType(RefSchema(n2))
    /\ pc' = "goType2"
    /\ UNCHANGED <<n1, n2, goType1, namingVars, typeVars, clientVars, generatorVars>>

RefNext ==
    \/ CallGoTypeN1
    \/ CallGoTypeN2

RefSpec == RefInit /\ [][RefNext]_vars

(***************************************************************************)
(* Calls of the generated client                                           *)
(***************************************************************************)
MaxFieldsSet == 1
MaxListLen == 2

\* path arguments; "%zz" is an invalid URL escape, which http.NewRequest
\* rejects
PathArgValues == {"id1", "%zz"}

\* values of a field by the Go type of the field
ScalarValues(type) ==
    CASE type = "string" -> {"a b"}
      [] type = "int" -> {"int(28)"}
      [] type = "int32" -> {"int32(10)"}
      [] type = "bool" -> {"bool(true)"}
      [] OTHER -> {"New"}

RequiredValues(type) == {"", "a b"}

ElementValues(type) == {"New", "a,b"}

FieldValues(field) ==
    CASE field.kind = "required" -> RequiredValues(field.type)
      [] field.kind = "scalar" -> {<<v>> : v \in ScalarValues(field.type)}
      [] field.kind = "sequence" ->
            {<<list>> : list \in BoundedStrings(ElementValues(field.type), MaxListLen)}

RECURSIVE SubsetsUpTo(_, _)
SubsetsUpTo(S, k) ==
    IF k = 0 \/ S = {} THEN {{}}
    ELSE LET x == CHOOSE y \in S : TRUE
         IN SubsetsUpTo(S \ {x}, k)
            \cup {T \cup {x} : T \in SubsetsUpTo(S \ {x}, k - 1)}

FieldIndexes(m) == 1..Len(m.fields)
FieldNames(m) == {m.fields[i].name : i \in FieldIndexes(m)}
RequiredIndexes(m) == {i \in FieldIndexes(m) : m.fields[i].kind = "required"}
OptionalIndexes(m) == FieldIndexes(m) \ RequiredIndexes(m)

\* the params structs of m whose fields with an index in given hold a value
\* and whose other fields are nil
RECURSIVE ParamsGiven(_, _)
ParamsGiven(m, given) ==
    IF given = {} THEN {[name \in FieldNames(m) |-> <<>>]}
    ELSE LET i == CHOOSE j \in given : TRUE
         IN {[p EXCEPT ![m.fields[i].name] = v] :
                 p \in ParamsGiven(m, given \ {i}),
                 v \in FieldValues(m.fields[i])}

\* the params pointers of m: nil, or a struct with at most MaxFieldsSet
\* optional fields that are not nil
ParamsInputs(m) ==
    {<<>>} \cup
    {<<p>> : p \in UNION {ParamsGiven(m, RequiredIndexes(m) \cup S) :
                             S \in SubsetsUpTo(OptionalIndexes(m), MaxFieldsSet)}}

ArgNames(m) ==
    {m.path[i].arg : i \in {j \in 1..Len(m.path) : "arg" \in DOMAIN m.path[j]}}

CallInputs ==
    UNION {[method : {Methods[i].name},
            args : [ArgNames(Methods[i]) -> PathArgValues],
            params : ParamsInputs(Methods[i])] : i \in 1..Len(Methods)}

\* what the transport can answer: a status code, and a body that arrives as
\* a sequence of chunks; "{}" is a complete JSON value of the result type,
\* "x" is text that is not JSON
StatusCodes == {200, 399, 400, 404}
Bodies == {<<>>, <<"{}">>, <<"x">>, <<"{}", "x">>}
NoFailure == -1

\* io.ReadAll on a body whose reading fails after failAt chunks
ReadAll(body, failAt) ==
    IF failAt = NoFailure THEN [data |-> body, failed |-> FALSE]
    ELSE [data |-> SubSeq(body, 1, failAt), failed |-> TRUE]

\* json.NewDecoder(resp.Body).Decode(&result) succeeds when a complete
\* value has arrived before the end or the failure of the body
DecodeSucceeds(body, failAt) ==
    LET data == ReadAll(body, failAt).data
    IN data # <<>> /\ Head(data) = "{}"

\* req, err := http.NewRequest("GET", urlPath, nil), when it succeeds
NewRequest(url) == [Method |-> "GET", URL |-> url]

\* variant of Do that sends the request a second time
DoTwice(sent, req) == Append(Append(sent, req), req)

\* c.httpClient.Do(req): sent is what the transport was handed before
Do(sent, req) == Append(sent, req)

\* variant of IsAPIError that takes status 400 for a success
IsAPIErrorAbove400(status) == status > 400

\* if resp.StatusCode >= 400
IsAPIError(status) == status >= 400

\* body, _ := io.ReadAll(resp.Body)
\* return nil, fmt.Errorf("API error %d: %s", resp.StatusCode, string(body))
APIError(status, read) ==
    [result |-> <<>>,
     err |-> <<[msg |-> "API error", StatusCode |-> status, body |-> read.data]>>]

\* the end of a method that returns the body as it is
RawResult(read) ==
    IF read.failed
    THEN [result |-> <<>>, err |-> <<[msg |-> "failed to read response"]>>]
    ELSE [result |-> <<[value |-> read.data]>>, err |-> <<>>]

\* variant of JSONResult that returns the partly decoded value with the error
JSONResultWithError(body, failAt) ==
    IF DecodeSucceeds(body, failAt)
    THEN [result |-> <<[value |-> <<"{}">>]>>, err |-> <<>>]
    ELSE [result |-> <<[value |-> <<>>]>>,
          err |-> <<[msg |-> "failed to decode response"]>>]

\* the end of a method that decodes the body into its result type
JSONResult(body, failAt) ==
    IF DecodeSucceeds(body, failAt)
    THEN [result |-> <<[value |-> <<"{}">>]>>, err |-> <<>>]
    ELSE [result |-> <<>>, err |-> <<[msg |-> "failed to decode response"]>>]

\* what method m returns for a response with this status and body
Return(m, status, body, failAt) ==
    IF IsAPIError(status) THEN APIError(status, ReadAll(body, failAt))
    ELSE IF m.decode = "raw" THEN RawResult(ReadAll(body, failAt))
    ELSE JSONResult(body, failAt)

\* http.NewRequest fails when the URL does not parse
ValidURL(url) == \A i \in 1..Len(url) : url[i] # "%zz"

ClientInit ==
    /\ pc = "start"
    /\ call \in CallInputs
    /\ urlPath = <<>>
    /\ queryParams = <<>>
    /\ requests = <<>>
    /\ resp = <<>>
    /\ result = <<>>
    /\ err = <<>>
    /\ NamingIdle
    /\ TypeIdle
    /\ RefIdle
    /\ GeneratorIdle

\* a method up to c.httpClient.Do(req)
CallMethod ==
    /\ pc = "start"
    /\ LET m == MethodNamed(call.method)
           url == BuildURL(DefaultBaseURL, m, call.args, call.params)
       IN /\ urlPath' = url
          /\ queryParams' = QueryParams(m, call.params)
          /\ IF ValidURL(url)
             THEN /\ requests' = Do(requests, NewRequest(url))
                  /\ pc' = "do"
                  /\ UNCHANGED <<result, err>>
             ELSE /\ result' = <<>>
                  /\ err' = <<[msg |-> "failed to create request"]>>
                  /\ pc' = "returned"
                  /\ UNCHANGED requests
    /\ UNCHANGED <<call, resp, namingVars, typeVars, refVars, generatorVars>>

\* c.httpClient.Do(req) returns an error
TransportError ==
    /\ pc = "do"
    /\ result' = <<>>
    /\ err' = <<[msg |-> "failed to execute request"]>>
    /\ pc' = "returned"
    /\ UNCHANGED <<call, urlPath, queryParams, requests, resp, namingVars, typeVars, refVars, generatorVars>>

\* c.httpClient.Do(req) returns a response; the method from there to its
\* return
ReceiveResponse ==
    /\ pc = "do"
    /\ \E status \in StatusCodes, body \in Bodies :
       \E failAt \in {NoFailure} \cup 0..Len(body) :
          LET returned == Return(MethodNamed(call.method), status, body, failAt)
          IN /\ resp' = <<[StatusCode |-> status, Body |-> body, failAt |-> failAt]>>
             /\ result' = returned.result
             /\ err' = returned.err
    /\ pc' = "returned"
    /\ UNCHANGED <<call, urlPath, queryParams, requests, namingVars, typeVars, refVars, generatorVars>>

ClientNext ==
    \/ CallMethod
    \/ TransportError
    \/ ReceiveResponse

ClientSpec == ClientInit /\ [][ClientNext]_vars

(***************************************************************************)
(* clientgen: func main                                                    *)
(***************************************************************************)
\* what flag.Parse finds: flags it knows, -h or -help, or a flag it does not
\* know
CommandLines == {"flags", "help", "unknown flag"}

\* the file -input names
InputFiles == {"missing", "not YAML", "empty", "specification"}

\* the path -output names: "blocked" is a path os.MkdirAll cannot create
OutputDirs == {"absent", "blocked", "directory", "read-only directory"}

\* types.go and client.go in the output directory before the run
OutputFiles == {"absent", "old", "read-only"}

FileSystems ==
    {f \in [input : InputFiles, dir : OutputDirs,
             types : OutputFiles, client : OutputFiles] :
        f.dir \in {"absent", "blocked"} =>
            f.types = "absent" /\ f.client = "absent"}

\* flag.Parse() with flag.ExitOnError: -h and -help print the usage and exit
\* with status 0, a flag that is not defined prints it and exits with 2
FlagParse(commandLine) ==
    CASE commandLine = "help" -> [exits |-> TRUE, status |-> 0, failed |-> FALSE]
      [] commandLine = "unknown flag" -> [exits |-> TRUE, status |-> 2, failed |-> TRUE]
      [] OTHER -> [exits |-> FALSE, status |-> 0, failed |-> FALSE]

\* ioutil.ReadFile(*inputFile)
ReadFile(f) ==
    IF f.input = "missing" THEN [data |-> "", failed |-> TRUE]
    ELSE [data |-> f.input, failed |-> FALSE]

\* yaml.Unmarshal(yamlData, &spec): an empty document leaves spec as it is
Unmarshal(data) == [failed |-> data = "not YAML"]

\* os.MkdirAll(*outputDir, 0755)
MkdirAll(f) ==
    CASE f.dir = "absent" -> [fs |-> [f EXCEPT !.dir = "directory"], failed |-> FALSE]
      [] f.dir = "blocked" -> [fs |-> f, failed |-> TRUE]
      [] OTHER -> [fs |-> f, failed |-> FALSE]

\* ioutil.WriteFile(file, content, 0644): the file is created or truncated
\* when it can be opened for writing; complete tells whether every byte of
\* content is then written
WriteFile(f, file, complete) ==
    IF \/ f.dir \notin {"directory", "read-only directory"}
       \/ f[file] = "read-only"
       \/ (f[file] = "absent" /\ f.dir = "read-only directory")
    THEN [fs |-> f, failed |-> TRUE]
    ELSE IF complete
    THEN [fs |-> [f EXCEPT ![file] = "written"], failed |-> FALSE]
    ELSE [fs |-> [f EXCEPT ![file] = "partial"], failed |-> TRUE]

\* variant of Fatalf that returns from main after printing
FatalfThenReturn(message) == [printed |-> message, status |-> 0]

\* log.Fatalf(message): prints the message and calls os.Exit(1)
Fatalf(message) == [printed |-> message, status |-> 1]

\* the statements of main that call something that can fail, in order
MainSteps ==
    <<"flagParse", "readFile", "unmarshal", "mkdirAll", "writeTypes",
      "writeClient", "exited">>

Following(step) ==
    LET i == CHOOSE j \in 1..Len(MainSteps) : MainSteps[j] = step
    IN MainSteps[i + 1]

\* variant of Then that goes on after yaml.Unmarshal returned an error
ThenIgnoreParseError(step, failed) ==
    IF failed /\ step # "unmarshal" THEN "exited" ELSE Following(step)

\* variant of Then that goes on after types.go could not be written
ThenIgnoreTypesError(step, failed) ==
    IF failed /\ step # "writeTypes" THEN "exited" ELSE Following(step)

\* if err != nil { log.Fatalf(...) }: where main is after a step
Then(step, failed) ==
    IF failed THEN "exited" ELSE Following(step)

MainInit ==
    /\ pc = "flagParse"
    /\ argv \in CommandLines
    /\ fs0 \in FileSystems
    /\ fs = fs0
    /\ failedAt = ""
    /\ exit = <<>>
    /\ stdout = <<>>
    /\ stderr = <<>>
    /\ NamingIdle
    /\ TypeIdle
    /\ RefIdle
    /\ ClientIdle
    /\ ResponseIdle
    /\ SortedIdle

\* the rest of a step of main after flag.Parse: its call failed or not and
\* left the files as files; message is what log.Fatalf is given when it
\* failed, printed is what fmt prints when it did not
MainStep(step, failed, files, message, printed) ==
    LET next == Then(step, failed)
    IN /\ pc' = next
       /\ fs' = files
       /\ failedAt' = IF failed THEN step ELSE failedAt
       /\ stderr' = IF failed THEN Append(stderr, Fatalf(message).printed) ELSE stderr
       /\ stdout' = IF failed THEN stdout ELSE stdout \o printed
       /\ exit' = IF next # "exited" THEN exit
                  ELSE IF failed THEN <<Fatalf(message).status>>
                  ELSE <<0>>

CallFlagParse ==
    /\ pc = "flagParse"
    /\ LET parsed == FlagParse(argv)
       IN /\ pc' = IF parsed.exits THEN "exited" ELSE Following("flagParse")
          /\ exit' = IF parsed.exits THEN <<parsed.status>> ELSE exit
          /\ stderr' = IF parsed.exits THEN Append(stderr, "usage") ELSE stderr
          /\ failedAt' = IF parsed.failed THEN "flagParse" ELSE failedAt
    /\ UNCHANGED <<argv, fs0, fs, stdout, namingVars, typeVars, refVars,
                   clientVars, responseVars, sortedVars>>

CallReadFile ==
    /\ pc = "readFile"
    /\ MainStep("readFile", ReadFile(fs).failed, fs,
                "Failed to read input file", <<>>)
    /\ UNCHANGED <<argv, fs0, namingVars, typeVars, refVars, clientVars,
                   responseVars, sortedVars>>

CallUnmarshal ==
    /\ pc = "unmarshal"
    /\ MainStep("unmarshal", Unmarshal(ReadFile(fs).data).failed, fs,
                "Failed to parse OpenAPI spec", <<>>)
    /\ UNCHANGED <<argv, fs0, namingVars, typeVars, refVars, clientVars,
                   responseVars, sortedVars>>

CallMkdirAll ==
    /\ pc = "mkdirAll"
    /\ MainStep("mkdirAll", MkdirAll(fs).failed, MkdirAll(fs).fs,
                "Failed to create output directory", <<>>)
    /\ UNCHANGED <<argv, fs0, namingVars, typeVars, refVars, clientVars,
                   responseVars, sortedVars>>

WriteTypes ==
    /\ pc = "writeTypes"
    /\ \E complete \in BOOLEAN :
          LET written == WriteFile(fs, "types", complete)
          IN MainStep("writeTypes", written.failed, written.fs,
                      "Failed to write types file", <<"Generated types">>)
    /\ UNCHANGED <<argv, fs0, namingVars, typeVars, refVars, clientVars,
                   responseVars, sortedVars>>

\* from the writing of client.go to the end of main
WriteClient ==
    /\ pc = "writeClient"
    /\ \E complete \in BOOLEAN :
          LET written == WriteFile(fs, "client", complete)
          IN MainStep("writeClient", written.failed, written.fs,
                      "Failed to write client file",
                      <<"Generated client",
                        "Client library generated successfully",
                        "Usage example">>)
    /\ UNCHANGED <<argv, fs0, namingVars, typeVars, refVars, clientVars,
                   responseVars, sortedVars>>

MainNext ==
    \/ CallFlagParse
    \/ CallReadFile
    \/ CallUnmarshal
    \/ CallMkdirAll
    \/ WriteTypes
    \/ WriteClient

MainSpec == MainInit /\ [][MainNext]_vars

(***************************************************************************)
(* Operation.GetSuccessResponse                                            *)
(***************************************************************************)
MaxResponses == 2

\* variant of HasPrefix that tests the end of s
HasSuffix(s, prefix) ==
    /\ Len(s) >= Len(prefix)
    /\ SubSeq(s, Len(s) - Len(prefix) + 1, Len(s)) = prefix

\* strings.HasPrefix(s, prefix)
HasPrefix(s, prefix) ==
    /\ Len(s) >= Len(prefix)
    /\ SubSeq(s, 1, Len(prefix)) = prefix

\* the orders in which a range statement can visit the keys of a map: the
\* language leaves the order open
IterationOrders(mapKeys) ==
    {o \in [1..Cardinality(mapKeys) -> mapKeys] :
        \A i, j \in 1..Cardinality(mapKeys) : o[i] = o[j] => i = j}

\* GetSuccessResponse on an Operation with these Responses, when the range
\* statement visits the keys in this order; nil is the empty sequence
RECURSIVE GetSuccessResponse(_, _)
GetSuccessResponse(resps, order) ==
    IF order = <<>> THEN <<>>
    ELSE IF HasPrefix(Head(order), <<"2">>) THEN <<resps[Head(order)]>>
    ELSE GetSuccessResponse(resps, Tail(order))

ResponseKeys ==
    {<<"2","0","0">>, <<"2","0","1">>, <<"2">>, <<"4","0","0">>,
     <<"4","0","2">>, <<"d","e","f","a","u","l","t">>, <<>>}

Response == [Description : {"d1", "d2"}, Content : {{}, {"application/json"}}]

ResponseMaps ==
    UNION {[K -> Response] : K \in SubsetsUpTo(ResponseKeys, MaxResponses)}

ResponseInit ==
    /\ pc = "start"
    /\ responses \in ResponseMaps
    /\ success1 = <<>>
    /\ success2 = <<>>
    /\ NamingIdle
    /\ TypeIdle
    /\ RefIdle
    /\ ClientIdle
    /\ MainIdle
    /\ SortedIdle

CallGetSuccessResponse ==
    /\ pc = "start"
    /\ \E order \in IterationOrders(DOMAIN responses) :
          success1' = GetSuccessResponse(responses, order)
    /\ pc' = "first"
    /\ UNCHANGED <<responses, success2, namingVars, typeVars, refVars,
                   clientVars, mainVars, sortedVars>>

CallGetSuccessResponseAgain ==
    /\ pc = "first"
    /\ \E order \in IterationOrders(DOMAIN responses) :
          success2' = GetSuccessResponse(responses, order)
    /\ pc' = "second"
    /\ UNCHANGED <<responses, success1, namingVars, typeVars, refVars,
                   clientVars, mainVars, sortedVars>>

ResponseNext ==
    \/ CallGetSuccessResponse
    \/ CallGetSuccessResponseAgain

ResponseSpec == ResponseInit /\ [][ResponseNext]_vars

(***************************************************************************)
(* OpenAPISpec.GetSortedSchemas and GetSortedPaths                         *)
(***************************************************************************)
MaxKeys == 3

\* the characters of the keys in the order of their bytes
ByteOrder == <<"-", "/">> \o Uppers \o <<"_">> \o Lowers \o <<"{", "}">>

Byte(c) == CHOOSE i \in 1..Len(ByteOrder) : ByteOrder[i] = c

\* a < b on strings
RECURSIVE Less(_, _)
Less(a, b) ==
    IF b = <<>> THEN FALSE
    ELSE IF a = <<>> THEN TRUE
    ELSE IF a[1] = b[1] THEN Less(Tail(a), Tail(b))
    ELSE Byte(a[1]) < Byte(b[1])

RECURSIVE Insert(_, _)
Insert(sorted, x) ==
    IF sorted = <<>> THEN <<x>>
    ELSE IF Less(x, Head(sorted)) THEN <<x>> \o sorted
    ELSE <<Head(sorted)>> \o Insert(Tail(sorted), x)

\* variant of SortStrings that leaves the slice as it is
NotSorted(a) == a

\* sort.Strings(a)
RECURSIVE SortStrings(_)
SortStrings(a) ==
    IF a = <<>> THEN <<>>
    ELSE Insert(SortStrings(SubSeq(a, 1, Len(a) - 1)), a[Len(a)])

\* GetSortedSchemas when the range statement visits the keys of
\* Components.Schemas in this order
GetSortedSchemas(order) == SortStrings(order)

\* GetSortedPaths when the range statement visits the keys of Paths in this
\* order
GetSortedPaths(order) == SortStrings(order)

SchemaNames ==
    {<<"L","a","w">>, <<"l","a","w">>, <<"L","a">>, <<"_","x">>, <<"Z">>}

PathNames ==
    {<<"/","a">>, <<"/","a","/","b">>, <<"/","a","-","b">>, <<"/","B">>,
     <<"/","{","a","}">>}

SortedInit ==
    /\ pc = "start"
    /\ schemas \in SubsetsUpTo(SchemaNames, MaxKeys)
    /\ paths \in SubsetsUpTo(PathNames, MaxKeys)
    /\ sortedSchemas = <<>>
    /\ sortedPaths = <<>>
    /\ NamingIdle
    /\ TypeIdle
    /\ RefIdle
    /\ ClientIdle
    /\ MainIdle
    /\ ResponseIdle

CallGetSortedSchemas ==
    /\ pc = "start"
    /\ \E order \in IterationOrders(schemas) :
          sortedSchemas' = GetSortedSchemas(order)
    /\ pc' = "sortedSchemas"
    /\ UNCHANGED <<schemas, paths, sortedPaths, namingVars, typeVars, refVars,
                   clientVars, mainVars, responseVars>>

CallGetSortedPaths ==
    /\ pc = "sortedSchemas"
    /\ \E order \in IterationOrders(paths) :
          sortedPaths' = GetSortedPaths(order)
    /\ pc' = "sortedPaths"
    /\ UNCHANGED <<schemas, paths, sortedSchemas, namingVars, typeVars, refVars,
                   clientVars, mainVars, responseVars>>

SortedNext ==
    \/ CallGetSortedSchemas
    \/ CallGetSortedPaths

SortedSpec == SortedInit /\ [][SortedNext]_vars

(***************************************************************************)
(* Properties of the type resolver                                         *)
(***************************************************************************)
\* the text of ref after its last "/", the whole of ref when it has none
AfterLastSlash(ref) ==
    LET slashes == {k \in 1..Len(ref) : ref[k] = "/"}
    IN IF slashes = {} THEN ref
       ELSE LET last == CHOOSE k \in slashes : \A j \in slashes : j <= k
            IN SubSeq(ref, last + 1, Len(ref))

HasAllOfRef(s) == \E i \in 1..Len(s.AllOf) : s.AllOf[i].Ref # <<>>

FirstAllOfRef(s) ==
    CHOOSE i \in 1..Len(s.AllOf) :
        /\ s.AllOf[i].Ref # <<>>
        /\ \A j \in 1..(i-1) : s.AllOf[j].Ref = <<>>

\* C1: whenever Ref is non-empty, whatever the other fields hold, GoType
\* returns toPascalCase of the text after the last "/" of Ref; a reference
\* to law_id resolves to LawId.
C1_RefPrecedence ==
    (pc = "goType" /\ schema.Ref # <<>>) =>
        /\ goType = toPascalCase(AfterLastSlash(schema.Ref))
        /\ (schema.Ref = RefTo(law_id) => goType = LawId)

C1_Witness ==
    /\ pc = "goType"
    /\ schema.Ref = RefTo(law_id)
    /\ schema.Type = "array"
    /\ schema.Items # <<>>
    /\ schema.Enum # <<>>
    /\ schema.Properties # {}
    /\ schema.AllOf = <<FooMember, ObjectMember>>
    /\ goType = LawId

\* C2: with Ref empty and at least one AllOf member carrying a Ref, GoType
\* returns the PascalCase name of the first such member in list order,
\* whatever the other members and the outer Type are; allOf [{$ref Foo},
\* {type: object}] resolves to Foo.
C2_AllOfFirstRef ==
    (pc = "goType" /\ schema.Ref = <<>> /\ HasAllOfRef(schema)) =>
        /\ goType = toPascalCase(AfterLastSlash(schema.AllOf[FirstAllOfRef(schema)].Ref))
        /\ (schema.AllOf = <<FooMember, ObjectMember>> => goType = Foo)
        /\ (schema.AllOf = <<ObjectMember, BarBazMember>> => goType = BarBaz)

C2_Witness ==
    /\ pc = "goType"
    /\ schema.Ref = <<>>
    /\ schema.Type = "integer"
    /\ schema.AllOf = <<FooMember, BarBazMember>>
    /\ goType = Foo

\* C3: with Ref empty and a non-empty AllOf none of whose members carries a
\* Ref, GoType returns what it returns for the same schema without AllOf.
C3_AllOfFallThrough ==
    (pc = "goType" /\ schema.Ref = <<>> /\ schema.AllOf # <<>>
        /\ ~HasAllOfRef(schema)) =>
        /\ goType = GoType([schema EXCEPT !.AllOf = <<>>])
        /\ (schema.Type = "integer" /\ schema.Format = "int64" => goType = TInt64)
        /\ (schema.Type = "" => goType = TInterface)

C3_Witness ==
    /\ pc = "goType"
    /\ schema.Ref = <<>>
    /\ schema.AllOf = <<ObjectMember>>
    /\ schema.Type = "integer"
    /\ schema.Format = "int64"
    /\ goType = TInt64

\* C4: with Ref empty, no AllOf member carrying a Ref and Type "array",
\* GoType returns "[]" followed by GoType of Items when Items is not nil,
\* at every nesting depth, and "[]interface{}" when Items is nil; an array
\* of integer/int32 gives "[]int32".
C4_Array ==
    (pc = "goType" /\ schema.Ref = <<>> /\ ~HasAllOfRef(schema)
        /\ schema.Type = "array") =>
        /\ schema.Items # <<>> => goType = <<"[", "]">> \o GoType(schema.Items[1])
        /\ schema.Items = <<>> => goType = TSliceOfInterface
        /\ schema.Items = <<Int32Schema>> => goType = <<"[", "]">> \o TInt32
        /\ schema.Items = <<[EmptySchema EXCEPT !.Type = "array", !.Items = <<Int32Schema>>]>>
               => goType = <<"[", "]", "[", "]">> \o TInt32
        /\ schema.Items = <<[EmptySchema EXCEPT !.Type = "array"]>>
               => goType = <<"[", "]">> \o TSliceOfInterface

C4_Witness ==
    /\ pc = "goType"
    /\ schema.Ref = <<>>
    /\ schema.AllOf = <<>>
    /\ schema.Type = "array"
    /\ schema.Items = <<[EmptySchema EXCEPT !.Type = "array", !.Items = <<Int32Schema>>]>>
    /\ goType = <<"[", "]", "[", "]", "i", "n", "t", "3", "2">>

\* the table of C5, for every Type other than "array"
PrimitiveTable(type, format, enum, properties) ==
    CASE type = "string" /\ enum # <<>> -> TString
      [] type = "string" /\ enum = <<>> /\ format = "date-time" -> TDateTime
      [] type = "string" /\ enum = <<>> /\ format = "date" -> TDate
      [] type = "string" /\ enum = <<>> /\ format \notin {"date-time", "date"} -> TString
      [] type = "integer" /\ format = "int32" -> TInt32
      [] type = "integer" /\ format = "int64" -> TInt64
      [] type = "integer" /\ format \notin {"int32", "int64"} -> TInt
      [] type = "number" /\ format = "float" -> TFloat32
      [] type = "number" /\ format # "float" -> TFloat64
      [] type = "boolean" -> TBool
      [] type = "object" /\ properties = {} -> TMapOfInterface
      [] type = "object" /\ properties # {} -> TInterface
      [] OTHER -> TInterface

\* C5: with Ref empty and no AllOf member carrying a Ref, GoType follows the
\* primitive table for every combination of Type, Format, Enum and
\* Properties (Type "array" is the subject of C4).
C5_PrimitiveDispatch ==
    (pc = "goType" /\ schema.Ref = <<>> /\ ~HasAllOfRef(schema)
        /\ schema.Type # "array") =>
        goType = PrimitiveTable(schema.Type, schema.Format, schema.Enum,
                                schema.Properties)

C5_Witness ==
    /\ pc = "goType"
    /\ schema.Ref = <<>>
    /\ schema.AllOf = <<>>
    /\ schema.Type = "string"
    /\ schema.Format = "date-time"
    /\ schema.Enum # <<>>
    /\ goType = TString

(***************************************************************************)
(* Properties of the naming engine                                         *)
(***************************************************************************)
\* the positions at which a word of s starts
WordStarts(s) ==
    {i \in 1..Len(s) :
        /\ s[i] \notin {"_", "-", " "}
        /\ (i = 1 \/ s[i - 1] \in {"_", "-", " "})}

Lawid == <<"L","a","w","i","d">>

HasSlash(name) == \E i \in 1..Len(name) : name[i] = "/"

\* C7 as stated: for any two distinct component names, names containing "/"
\* included, the two references resolve to different types whenever
\* toPascalCase of the two names differs.
C7_DistinctRefTypesAnyName ==
    (pc = "goType2" /\ toPascalCase(n1) # toPascalCase(n2)) =>
        goType1 # goType2

\* C7 as amended: for any two distinct component names that contain no "/",
\* the two references resolve to different types whenever toPascalCase of
\* the two names differs.
C7_DistinctRefTypes ==
    (pc = "goType2" /\ ~HasSlash(n1) /\ ~HasSlash(n2)
        /\ toPascalCase(n1) # toPascalCase(n2)) =>
        goType1 # goType2

C7_Witness ==
    /\ pc = "goType2"
    /\ n1 = <<"a", "_", "a">>
    /\ n2 = <<"a", "a">>
    /\ goType1 = <<"A", "A">>
    /\ goType2 = <<"A", "a">>

\* C8: GetMethodName returns toPascalCase of OperationID with every "-"
\* replaced by "_" when OperationID is non-empty (get-law-data gives
\* GetLawData) and "UnknownOperation" for every Operation whose OperationID
\* is empty.
C8_MethodName ==
    pc = "methodName" =>
        /\ op.OperationID # <<>> =>
               methodName = toPascalCase(ReplaceAll(op.OperationID, "-", "_"))
        /\ op.OperationID = <<>> => methodName = UnknownOperation
        /\ op.OperationID = get_law_data => methodName = GetLawData

C8_Witness ==
    /\ pc = "methodName"
    /\ op.OperationID = get_law_data
    /\ methodName = GetLawData

(***************************************************************************)
(* Properties of the generated client                                      *)
(***************************************************************************)
\* the method has built urlPath and no response has been handled yet
UrlBuilt == pc = "do" \/ (pc = "returned" /\ resp = <<>>)

\* the positions of urlPath at which a pair key=value starts
KeyPositions(url, key) ==
    {i \in 1..(Len(url) - 1) : url[i] = key /\ url[i + 1] = "="}

\* the text of a value on the wire
WireText(v) ==
    CASE v = "a,b" -> "a%2Cb"
      [] v = "a b" -> "a+b"
      [] v = "int(28)" -> "28"
      [] v = "int32(10)" -> "10"
      [] v = "bool(true)" -> "true"
      [] OTHER -> v

\* key=v1&key=v2&...&key=vn starts at position start of url
RunAt(url, start, key, list) ==
    /\ start + 4 * Len(list) - 2 <= Len(url)
    /\ \A j \in 1..Len(list) :
          LET at == start + 4 * (j - 1)
          IN /\ url[at] = key
             /\ url[at + 1] = "="
             /\ url[at + 2] = WireText(list[j])
             /\ (j < Len(list) => url[at + 3] = "&")

\* C9: in every method, a sequence field set to a list of n values puts its
\* key into queryParams and into the URL exactly n times, as
\* key=v1&...&key=vn in the order of the list; a scalar field puts its key
\* there at most once.
C9_RepeatedKeys ==
    (UrlBuilt /\ call.params # <<>>) =>
        LET m == MethodNamed(call.method)
            p == call.params[1]
        IN \A i \in 1..Len(m.fields) :
              LET field == m.fields[i]
                  positions == KeyPositions(urlPath, field.key)
              IN /\ (field.kind = "sequence" /\ p[field.name] # <<>>) =>
                       LET list == p[field.name][1]
                       IN /\ Cardinality(positions) = Len(list)
                          /\ list # <<>> =>
                                /\ \E start \in positions :
                                      RunAt(urlPath, start, field.key, list)
                                /\ field.key \in DOMAIN queryParams
                                /\ queryParams[field.key]
                                      = [j \in 1..Len(list) |-> list[j]]
                          /\ list = <<>> => field.key \notin DOMAIN queryParams
                 /\ field.kind = "scalar" =>
                       Cardinality(positions) = (IF p[field.name] # <<>> THEN 1 ELSE 0)
                 /\ field.kind = "required" => Cardinality(positions) = 1

C9_Witness ==
    /\ pc = "do"
    /\ call.method = "GetKeyword"
    /\ call.params # <<>>
    /\ call.params[1].Keyword = "a b"
    /\ call.params[1].CategoryCd = << <<"New", "a,b">> >>
    /\ urlPath = <<DefaultBaseURL, "/keyword", "?",
                   "category_cd", "=", "New", "&",
                   "category_cd", "=", "a%2Cb", "&",
                   "keyword", "=", "a+b">>

\* base URL plus path of a call, method by method
ExpectedPath(c) ==
    CASE c.method = "GetAttachment" ->
            <<DefaultBaseURL, "/attachment", "/", c.args.lawRevisionId>>
      [] c.method = "GetKeyword" -> <<DefaultBaseURL, "/keyword">>
      [] c.method = "GetLawData" ->
            <<DefaultBaseURL, "/law_data", "/", c.args.lawIdOrNumOrRevisionId>>
      [] c.method = "GetLawFile" ->
            <<DefaultBaseURL, "/law_file", "/", c.args.fileType, "/",
              c.args.lawIdOrNumOrRevisionId>>
      [] c.method = "GetRevisions" ->
            <<DefaultBaseURL, "/law_revisions", "/", c.args.lawIdOrNum>>
      [] c.method = "GetLaws" -> <<DefaultBaseURL, "/laws">>

\* params is not nil and the method sets at least one key for it
SetsSomeKey(c) ==
    /\ c.params # <<>>
    /\ LET m == MethodNamed(c.method)
           p == c.params[1]
       IN \E i \in 1..Len(m.fields) :
             \/ m.fields[i].kind = "required"
             \/ m.fields[i].kind = "scalar" /\ p[m.fields[i].name] # <<>>
             \/ /\ m.fields[i].kind = "sequence"
                /\ p[m.fields[i].name] # <<>>
                /\ p[m.fields[i].name][1] # <<>>

\* C10: in every method the URL has a "?" suffix exactly when params is not
\* nil and at least one key was set; otherwise the URL is the base URL plus
\* the path.
C10_QuerySuffix ==
    UrlBuilt =>
        /\ (\E i \in 1..Len(urlPath) : urlPath[i] = "?") <=> SetsSomeKey(call)
        /\ SubSeq(urlPath, 1, Len(ExpectedPath(call))) = ExpectedPath(call)
        /\ ~SetsSomeKey(call) => urlPath = ExpectedPath(call)
        /\ SetsSomeKey(call) =>
              /\ Len(urlPath) > Len(ExpectedPath(call)) + 1
              /\ urlPath[Len(ExpectedPath(call)) + 1] = "?"

C10_Witness ==
    /\ pc = "do"
    /\ call.method = "GetLaws"
    /\ call.params # <<>>
    /\ \A name \in DOMAIN call.params[1] : call.params[1][name] = <<>>
    /\ urlPath = <<DefaultBaseURL, "/laws">>

(***************************************************************************)
(* Properties of the generated client: responses and requests              *)
(***************************************************************************)
\* the method has returned after the transport answered
GotResponse == pc = "returned" /\ resp # <<>>

IsAPIErrorValue(e) == e # <<>> /\ e[1].msg = "API error"

\* the chunks of the body of r that arrive before its reading ends or fails
BodyRead(r) ==
    [i \in 1..(IF r.failAt = NoFailure THEN Len(r.Body) ELSE r.failAt) |-> r.Body[i]]

\* C11 as stated: a response with status >= 400 gives a nil result and an
\* API error that carries the status code and the whole response body; a
\* response with status < 400 is never reported as an API error.
C11_APIErrorWholeBody ==
    GotResponse =>
        IF resp[1].StatusCode >= 400
        THEN /\ result = <<>>
             /\ IsAPIErrorValue(err)
             /\ err[1].StatusCode = resp[1].StatusCode
             /\ err[1].body = resp[1].Body
        ELSE ~IsAPIErrorValue(err)

\* C11 as amended: a response with status >= 400 gives a nil result and an
\* API error that carries the status code and the part of the body that could
\* be read, which is the whole body when reading it does not fail; a response
\* with status < 400 is never reported as an API error.
C11_APIErrorBodyRead ==
    GotResponse =>
        IF resp[1].StatusCode >= 400
        THEN /\ result = <<>>
             /\ IsAPIErrorValue(err)
             /\ err[1].StatusCode = resp[1].StatusCode
             /\ err[1].body = BodyRead(resp[1])
             /\ (resp[1].failAt = NoFailure => err[1].body = resp[1].Body)
        ELSE ~IsAPIErrorValue(err)

C11_Witness ==
    /\ GotResponse
    /\ resp[1].StatusCode = 404
    /\ resp[1].Body = <<"x">>
    /\ resp[1].failAt = NoFailure
    /\ result = <<>>
    /\ err = <<[msg |-> "API error", StatusCode |-> 404, body |-> <<"x">>]>>

\* C12: a call hands the transport at most one request, always a GET, and a
\* call that has returned made exactly one attempt unless the request could
\* not be created, whatever the attempt ended in.
C12_OneGetRequest ==
    /\ Len(requests) <= 1
    /\ \A i \in 1..Len(requests) : requests[i].Method = "GET"
    /\ (pc = "do" => Len(requests) = 1)
    /\ (pc = "returned" =>
           Len(requests) = IF err = <<[msg |-> "failed to create request"]>>
                           THEN 0 ELSE 1)

C12_Witness ==
    /\ pc = "returned"
    /\ resp = <<>>
    /\ err = <<[msg |-> "failed to execute request"]>>
    /\ Len(requests) = 1
    /\ requests[1].Method = "GET"

\* C18: a method that has returned gave either a result and no error or an
\* error and no result, on every path.
C18_ResultXorError ==
    pc = "returned" => ((result = <<>>) # (err = <<>>))

C18_Witness ==
    /\ GotResponse
    /\ MethodNamed(call.method).decode = "json"
    /\ resp[1].StatusCode = 200
    /\ resp[1].Body = <<"x">>
    /\ result = <<>>
    /\ err = <<[msg |-> "failed to decode response"]>>

(***************************************************************************)
(* Properties of clientgen                                                 *)
(***************************************************************************)
Exited == pc = "exited" /\ exit # <<>>

BothWritten == fs.types = "written" /\ fs.client = "written"

FailingSteps == {"readFile", "unmarshal", "mkdirAll", "writeTypes", "writeClient"}

\* the position of a step in main
StepIndex(step) == CHOOSE j \in 1..Len(MainSteps) : MainSteps[j] = step

\* what a run that failed at step has left alone: nothing is created before
\* mkdirAll, types.go is not touched before writeTypes, client.go is not
\* touched before writeClient succeeds in opening it
NoLaterStepRan(step) ==
    /\ (StepIndex(step) < StepIndex("mkdirAll") => fs.dir = fs0.dir)
    /\ (StepIndex(step) < StepIndex("writeTypes") => fs.types = fs0.types)
    /\ (StepIndex(step) < StepIndex("writeClient") => fs.client = fs0.client)
    /\ fs.client # "written"

\* C13 as stated: a failure of reading, parsing, creating the directory or
\* writing a file ends the process at that step with a status other than 0,
\* and the status is 0 only when both files were written.
C13_ExitStatusAnyRun ==
    /\ (failedAt \in FailingSteps =>
           Exited /\ exit[1] # 0 /\ NoLaterStepRan(failedAt))
    /\ (Exited /\ exit[1] = 0 => BothWritten)

\* C13 as amended: a failure of reading, parsing, creating the directory or
\* writing a file ends the process at that step with a status other than 0,
\* and the status is 0 only when both files were written or when the command
\* line asked for the usage text, in which case nothing is read or written.
C13_ExitStatus ==
    /\ (failedAt \in FailingSteps =>
           Exited /\ exit[1] # 0 /\ NoLaterStepRan(failedAt))
    /\ (Exited /\ exit[1] = 0 =>
           \/ BothWritten
           \/ argv = "help" /\ fs = fs0 /\ stdout = <<>>)
    /\ (Exited /\ argv = "flags" /\ failedAt = "" => exit[1] = 0 /\ BothWritten)

C13_Witness ==
    /\ Exited
    /\ failedAt = "mkdirAll"
    /\ exit = <<1>>
    /\ fs0.input = "specification"
    /\ fs = fs0

\* C14: a run in which reading or parsing the specification failed has
\* created no directory and written neither file: the files are as they
\* were when the run began, and nothing was printed about generated files.
C14_NoOutputOnReadOrParseFailure ==
    failedAt \in {"readFile", "unmarshal"} =>
        /\ fs = fs0
        /\ stdout = <<>>
        /\ Exited

C14_Witness ==
    /\ Exited
    /\ failedAt = "unmarshal"
    /\ fs0.input = "not YAML"
    /\ fs0.dir = "absent"
    /\ fs.dir = "absent"

\* writing the file began in this run: it was created or truncated
Opened(file) == fs[file] \in {"written", "partial"}

\* C19: client.go is opened for writing only when types.go was written in
\* this run, and a run that fails to write client.go ends with status 1 and
\* leaves the types.go it wrote.
C19_TypesBeforeClient ==
    /\ (Opened("client") => fs.types = "written")
    /\ (pc = "writeClient" => fs.types = "written")
    /\ (failedAt = "writeClient" =>
           Exited /\ exit = <<1>> /\ fs.types = "written" /\ fs.client # "written")

C19_Witness ==
    /\ Exited
    /\ failedAt = "writeClient"
    /\ exit = <<1>>
    /\ fs.types = "written"
    /\ fs.client = "absent"

(***************************************************************************)
(* Properties of GetSuccessResponse and of the sorted key lists            *)
(***************************************************************************)
\* the keys of Responses whose first character is "2"
SuccessKeys == {k \in DOMAIN responses : k # <<>> /\ k[1] = "2"}

\* C15: GetSuccessResponse returns nil exactly when no key of Responses
\* starts with "2"; otherwise it returns the Response of a key that starts
\* with "2", and not a Response that only keys with another prefix hold.
C15_SuccessResponse ==
    pc \in {"first", "second"} =>
        /\ (success1 = <<>>) = (SuccessKeys = {})
        /\ (success1 # <<>> =>
               /\ success1[1] \in {responses[k] : k \in SuccessKeys}
               /\ \A k \in DOMAIN responses \ SuccessKeys :
                     (\A k2 \in SuccessKeys : responses[k] # responses[k2])
                         => success1[1] # responses[k])

C15_Witness ==
    /\ pc = "first"
    /\ DOMAIN responses = {<<"4","0","2">>, <<"2","0","0">>}
    /\ responses[<<"4","0","2">>].Description = "d1"
    /\ responses[<<"2","0","0">>].Description = "d2"
    /\ success1 = <<responses[<<"2","0","0">>]>>

\* C16: two calls of GetSuccessResponse on the same Operation return the
\* same response, whatever order the map is visited in.
C16_SameSuccessResponse ==
    pc = "second" => success1 = success2

\* the strings a and b differ first at a position where a has ended or has
\* the smaller byte
Before(a, b) ==
    \E k \in 1..(Len(b)) :
        /\ k <= Len(a) + 1
        /\ \A j \in 1..(k - 1) : a[j] = b[j]
        /\ (k = Len(a) + 1 \/ Byte(a[k]) < Byte(b[k]))

\* list holds every element of mapKeys once, and nothing else, in ascending
\* order
SortedListOf(list, mapKeys) ==
    /\ Len(list) = Cardinality(mapKeys)
    /\ {list[i] : i \in 1..Len(list)} = mapKeys
    /\ \A i, j \in 1..Len(list) : i < j => Before(list[i], list[j])

\* C17: GetSortedSchemas returns every key of Components.Schemas once and
\* GetSortedPaths every key of Paths once, in ascending order of their bytes
\* and with nothing that is not a key, whatever order the map is visited in.
C17_SortedKeys ==
    /\ (pc \in {"sortedSchemas", "sortedPaths"} =>
           SortedListOf(sortedSchemas, schemas))
    /\ (pc = "sortedPaths" => SortedListOf(sortedPaths, paths))

C17_Witness ==
    /\ pc = "sortedPaths"
    /\ schemas = {<<"l","a","w">>, <<"_","x">>, <<"L","a","w">>}
    /\ sortedSchemas = <<<<"L","a","w">>, <<"_","x">>, <<"l","a","w">>>>
    /\ paths = {<<"/","a","/","b">>, <<"/","a">>, <<"/","a","-","b">>}
    /\ sortedPaths = <<<<"/","a">>, <<"/","a","-","b">>, <<"/","a","/","b">>>>

====
